---- MODULE Spec2Model ----
(***************************************************************************)
(* Model of struct.go (package sqlbuilder): the Struct mapper, its         *)
(* configuration methods and its per-record operations.                    *)
(*                                                                         *)
(* struct.go calls into the field parser (structFieldsParser, structFields,*)
(* structField) and into the statement builders, whose code is in other    *)
(* files; those parts are modelled from the design document and marked so  *)
(* in the comments.                                                        *)
(***************************************************************************)
EXTENDS Integers, Sequences, FiniteSets, TLC

\* s      the Struct the caller holds          args   the record arguments
\* last   the last call and its outcome
\* heap   the Struct objects, cfg the last configuration call
\* once, sfsBuilt, pc, seen, builds, calls: the goroutines sharing one field parser
VARIABLES s, args, last, heap, cfg, once, sfsBuilt, pc, seen, builds, calls

vars == <<s, args, last, heap, cfg, once, sfsBuilt, pc, seen, builds, calls>>

seqVars == <<s, args, last>>
cfgVars == <<heap, cfg>>
concVars == <<once, sfsBuilt, pc, seen, builds, calls>>

(***************************************************************************)
(* Bounds of the model.                                                    *)
(***************************************************************************)
\* most records passed to one insert call
MaxRecords == 2
\* most Struct objects on the heap besides emptyStruct
MaxStructs == 2
\* most column names passed to AddrWithCols
MaxCols == 2
\* goroutines sharing one Struct
NumProcs == 3
\* operations each goroutine starts
MaxCalls == 2

(***************************************************************************)
(* reflect.Value of a field, as far as struct.go looks at it.              *)
(*   valid : FALSE for the zero reflect.Value                              *)
(*   ptrs  : number of non-nil pointers/interfaces to go through           *)
(*   isNil : the chain ends in a nil pointer or nil interface              *)
(*   elems : the scalars at the end of the chain (one for Int/String/...,  *)
(*           several for an Array or Struct kind); <<>> when isNil         *)
(***************************************************************************)
\* a scalar is the zero value of its kind (0) or another value (1)
Scalars == {0, 1}

Invalid == [valid |-> FALSE, ptrs |-> 0, isNil |-> FALSE, elems |-> <<>>]

\* the values a field of static type (depth pointers to len scalars) can hold
FieldValues(depth, len) ==
    { [valid |-> TRUE, ptrs |-> depth, isNil |-> FALSE, elems |-> e] :
          e \in [1..len -> Scalars] }
    \cup
    { [valid |-> TRUE, ptrs |-> k, isNil |-> TRUE, elems |-> <<>>] :
          k \in 0..(depth - 1) }

\* v.Kind() == reflect.Ptr || v.Kind() == reflect.Interface
IsPtrKind(v) == v.valid /\ (v.ptrs > 0 \/ v.isNil)

\* dereferencedValue, struct.go:480-486: follow Elem() while the kind is Ptr or
\* Interface; Elem() of a nil pointer is the zero Value, whose kind is Invalid.
dereferencedValue(v) ==
    IF ~v.valid THEN Invalid
    ELSE IF v.isNil THEN Invalid
    ELSE [v EXCEPT !.ptrs = 0]

\* isEmptyValue, struct.go:490-524.
\* Ptr/Interface/...: v.IsNil(); scalars: == 0 / Len() == 0 / !Bool();
\* Array and Struct: every element is empty.
isEmptyValue(v) ==
    IF IsPtrKind(v)
    THEN v.ptrs = 0 /\ v.isNil
    ELSE \A i \in 1..Len(v.elems) : v.elems[i] = 0

(***************************************************************************)
(* Declared record types and the field parser.                             *)
(*                                                                         *)
(* structfields.go is not part of the sources at hand: the descriptors,    *)
(* Tag, Cols and ShouldOmitEmpty follow sections 3, 4.1 and 4.3 of the     *)
(* design document.                                                        *)
(***************************************************************************)
\* The record types used as inputs.  User is the type of the design
\* document's end-to-end example, its ID of an array kind; Patch declares tag
\* groups, a pointer to pointer, a scoped omit-empty option and a quoted column.
\*   db       explicit column name ("" = none, the field mapper decides)
\*   tags     the fieldtag groups
\*   quote    fieldopt withquote
\*   omitTags fieldopt omitempty: {""} unscoped, {"t"} for omitempty(t), {} none
\*   depth    pointers in the field's static type;  len  scalars it ends in
StructTypes == {"User", "Patch"}

TypeDecl(t) ==
    IF t = "User" THEN
      << [Name |-> "ID",   db |-> "id", tags |-> {}, quote |-> FALSE,
          omitTags |-> {}, depth |-> 0, len |-> 2],
         [Name |-> "Name", db |-> "", tags |-> {}, quote |-> FALSE,
          omitTags |-> {""}, depth |-> 0, len |-> 1] >>
    ELSE IF t = "Patch" THEN
      << [Name |-> "Ref",  db |-> "", tags |-> {"update", "new"}, quote |-> TRUE,
          omitTags |-> {"update"}, depth |-> 2, len |-> 1],
         [Name |-> "Note", db |-> "note", tags |-> {"update"}, quote |-> FALSE,
          omitTags |-> {""}, depth |-> 0, len |-> 1] >>
    ELSE << >>

\* the tag names callers ask for: the default, two declared groups, an unknown one
Tags == {"", "update", "new", "other"}

Mappers == {"default", "snake"}

\* FieldMapperFunc: the default mapper keeps the identifier, the custom one
\* converts its case.
MapName(mapper, name) ==
    IF mapper = "default" THEN name
    ELSE CASE name = "ID" -> "i_d"
           [] name = "Name" -> "name"
           [] name = "Ref" -> "ref"
           [] name = "Note" -> "note"
           [] OTHER -> name

\* One structField: the column name is the explicit name, else the mapped one;
\* the alias defaults to the column name.
ParseField(f, mapper) ==
    [Name |-> f.Name,
     Alias |-> IF f.db # "" THEN f.db ELSE MapName(mapper, f.Name),
     tags |-> f.tags, quote |-> f.quote, omitTags |-> f.omitTags]

\* structFields of a type under a mapper: one descriptor per field, in
\* declaration order.
ParseFields(t, mapper) ==
    [i \in 1..Len(TypeDecl(t)) |-> ParseField(TypeDecl(t)[i], mapper)]

AbsentView == [present |-> FALSE, ForRead |-> << >>, ForWrite |-> << >>]

\* structFields.Tag: with no tag group declared on the type every field belongs
\* to the view of any tag; otherwise the view holds the fields of that group and
\* is absent when the group has none.
Tag(sfs, tag) ==
    LET declared == \E i \in 1..Len(sfs) : sfs[i].tags # {}
        fields == IF declared
                  THEN SelectSeq(sfs, LAMBDA sf : tag \in sf.tags)
                  ELSE sfs
    IN IF fields = << >> THEN AbsentView
       ELSE [present |-> TRUE, ForRead |-> fields, ForWrite |-> fields]

\* structTaggedFields.Cols: the read fields named by cols, in the caller's
\* order; absent when a name matches no field.
Cols(tagged, cols) ==
    LET match(c) == { i \in 1..Len(tagged.ForRead) : tagged.ForRead[i].Alias = c }
    IN IF \E j \in 1..Len(cols) : match(cols[j]) = {}
       THEN [present |-> FALSE, fields |-> << >>]
       ELSE [present |-> TRUE,
             fields |-> [j \in 1..Len(cols) |->
                           tagged.ForRead[CHOOSE i \in match(cols[j]) : TRUE]]]

\* structField.ShouldOmitEmpty(tags...): the option applies when it is unscoped
\* (key "") or scoped to one of the given tags.
ShouldOmitEmpty(sf, tags) == sf.omitTags \cap tags # {}

\* structField.Quote(flavor): the column, quoted by the dialect when requested.
Quote(sf, flavor) ==
    [name |-> sf.Alias, quotedBy |-> IF sf.quote THEN flavor ELSE "none"]

\* structField.NameForSelect(flavor)
NameForSelect(sf, flavor) == Quote(sf, flavor)

(***************************************************************************)
(* Struct, NewStruct and the configuration methods.                        *)
(***************************************************************************)
\* Flavor is an integer type; "invalid" stands for its zero value
Flavors == {"MySQL", "PostgreSQL"}
DefaultFlavor == "MySQL"

\* the zero value of the func-typed field structFieldsParser
NilParser == [set |-> FALSE, type |-> "", mapper |-> ""]

\* makeDefaultFieldsParser(t) / makeCustomFieldsParser(t, mapper): a parser
\* bound to the type and the mapper
makeFieldsParser(t, mapper) == [set |-> TRUE, type |-> t, mapper |-> mapper]

\* var emptyStruct Struct, struct.go:51: every field has its zero value
emptyStruct ==
    [Flavor |-> "invalid", structType |-> "", structFieldsParser |-> NilParser,
     structTag |-> ""]

\* sample values NewStruct is given: a struct of a declared type (by value or
\* behind pointers, dereferencedType strips them) or a non-struct value
Samples == StructTypes \cup {"int"}

\* NewStruct, struct.go:56-69.  ref "empty" is &emptyStruct, "new" a fresh object.
NewStruct(sample) ==
    IF sample \notin StructTypes
    THEN [ref |-> "empty", val |-> emptyStruct]
    ELSE [ref |-> "new",
          val |-> [Flavor |-> DefaultFlavor, structType |-> sample,
                   structFieldsParser |-> makeFieldsParser(sample, "default"),
                   structTag |-> ""]]

\* Struct.For, struct.go:73-77
For(st, flavor) == [ref |-> "new", val |-> [st EXCEPT !.Flavor = flavor]]

\* Struct.WithFieldMapper, struct.go:81-89
WithFieldMapper(st, mapper) ==
    IF st.structType = ""
    THEN [ref |-> "empty", val |-> emptyStruct]
    ELSE [ref |-> "new",
          val |-> [st EXCEPT
                     !.structFieldsParser = makeFieldsParser(st.structType, mapper)]]

\* Struct.WithTag, struct.go:93-97
WithTag(st, tag) == [ref |-> "new", val |-> [st EXCEPT !.structTag = tag]]

(***************************************************************************)
(* Call results.  A call either returns (status "ok") or panics.           *)
(***************************************************************************)
NoRet == [none |-> TRUE]
Panic == [status |-> "panic", ret |-> NoRet]
Ok(r) == [status |-> "ok", ret |-> r]

\* sfs := s.structFieldsParser(), the first statement of every operation:
\* calling the nil func value of emptyStruct panics.
ParserPanics(st) == ~st.structFieldsParser.set

structFields(st) ==
    ParseFields(st.structFieldsParser.type, st.structFieldsParser.mapper)

(***************************************************************************)
(* Record arguments (interface{} values).                                  *)
(*   kind "nil"    the untyped nil                                         *)
(*        "nilptr" a nil pointer                                           *)
(*        "value"  a value passed directly                                 *)
(*        "ptr"    a non-nil pointer (of any depth) to a value             *)
(*   type   the type reached after dereferencing ("" for the untyped nil)  *)
(*   fields the field values, in declaration order                         *)
(***************************************************************************)
RECURSIVE FieldTuples(_, _)
FieldTuples(decl, i) ==
    IF i > Len(decl) THEN { << >> }
    ELSE { <<v>> \o rest : v \in FieldValues(decl[i].depth, decl[i].len),
                           rest \in FieldTuples(decl, i + 1) }

RecordsOf(t) ==
    { [kind |-> k, type |-> t, fields |-> f] :
          k \in {"value", "ptr"}, f \in FieldTuples(TypeDecl(t), 1) }

NilArg == [kind |-> "nil", type |-> "", fields |-> << >>]
NilPtrArg(t) == [kind |-> "nilptr", type |-> t, fields |-> << >>]
IntArg == [kind |-> "value", type |-> "int", fields |-> << >>]

\* reflect.ValueOf(item) followed by dereferencedValue, struct.go:164-165
\* (also 239-240, 399-400, 454-455): the zero Value for nil and for a nil
\* pointer; a value reached through a pointer is addressable.
DerefArg(a) ==
    IF a.kind \in {"nil", "nilptr"}
    THEN [valid |-> FALSE, type |-> "", addressable |-> FALSE, fields |-> << >>]
    ELSE [valid |-> TRUE, type |-> a.type, addressable |-> a.kind = "ptr",
          fields |-> a.fields]

FieldIndex(t, name) ==
    CHOOSE i \in 1..Len(TypeDecl(t)) : TypeDecl(t)[i].Name = name

\* v.FieldByName(name)
FieldByName(v, name) == v.fields[FieldIndex(v.type, name)]

\* val.Interface(): the value as an interface{}; null is the untyped nil
Interface(val) == [null |-> FALSE, val |-> val]
NullData == [null |-> TRUE, val |-> Invalid]

(***************************************************************************)
(* The statement builders (external collaborators): only what struct.go    *)
(* hands to them is kept.                                                  *)
(***************************************************************************)
\* s.Flavor.NewSelectBuilder(); sb.From(table); sb.Select(cols...)
SelectBuilder(flavor, table, cols) ==
    [flavor |-> flavor, table |-> table, cols |-> cols]

\* s.Flavor.NewUpdateBuilder(); ub.Update(table); ub.Set(assignments...)
UpdateBuilder(flavor, table, assignments) ==
    [flavor |-> flavor, table |-> table, assignments |-> assignments]

\* s.Flavor.NewInsertBuilder(); ib.InsertInto(table) (or the other verbs)
NewInsertBuilder(flavor, verb, table) ==
    [flavor |-> flavor, verb |-> verb, table |-> table,
     cols |-> << >>, values |-> << >>]

\* ib.Cols(cols...) sets the column list
IbCols(ib, cols) == [ib EXCEPT !.cols = cols]

\* ib.Values(value...) adds one value row; rows is the sequence of rows added
\* by the loop of struct.go:299-301
IbValues(ib, rows) == [ib EXCEPT !.values = ib.values \o rows]

\* ub.Assign(column, data)
Assign(col, data) == [col |-> col, data |-> data]

\* s.Flavor.NewDeleteBuilder(); db.DeleteFrom(table)
DeleteBuilder(flavor, table) == [flavor |-> flavor, table |-> table]

(***************************************************************************)
(* Read operations.                                                        *)
(***************************************************************************)
\* Struct.SelectFromForTag, struct.go:111-137
SelectFromForTag(st, table, tag) ==
    IF ParserPanics(st) THEN Panic
    ELSE LET tagged == Tag(structFields(st), tag)
         IN IF ~tagged.present
            THEN Ok(SelectBuilder(st.Flavor, table, << [star |-> TRUE] >>))
            ELSE Ok(SelectBuilder(st.Flavor, table,
                      [i \in 1..Len(tagged.ForRead) |->
                         [star |-> FALSE, table |-> table,
                          col |-> NameForSelect(tagged.ForRead[i], st.Flavor)]]))

\* Struct.SelectFrom, struct.go:103-105
SelectFrom(st, table) == SelectFromForTag(st, table, st.structTag)

\* Struct.DeleteFrom, struct.go:352-356
DeleteFrom(st, table) == Ok(DeleteBuilder(st.Flavor, table))

NilSlice == [isNil |-> TRUE, items |-> << >>]
Slice(items) == [isNil |-> FALSE, items |-> items]

\* an address taken of every declared field, whatever the view
addrOfEveryField(st, fields, record) ==
    LET v == DerefArg(record)
    IN IF ~v.valid THEN Panic
       ELSE IF v.type # st.structType THEN Ok(NilSlice)
       ELSE IF fields # << >> /\ ~v.addressable THEN Panic
       ELSE Ok(Slice([i \in 1..Len(TypeDecl(v.type)) |->
                        [Name |-> TypeDecl(v.type)[i].Name, slot |-> i]]))

\* Struct.addrWithFields, struct.go:398-415.  v.Type() panics on the zero
\* Value; Addr() panics on a field of a value that is not addressable.  A
\* reference names the slot of the caller's record it points to.
addrWithFields(st, fields, record) ==
    LET v == DerefArg(record)
    IN IF ~v.valid THEN Panic
       ELSE IF v.type # st.structType THEN Ok(NilSlice)
       ELSE IF fields # << >> /\ ~v.addressable THEN Panic
       ELSE Ok(Slice([i \in 1..Len(fields) |->
                        [Name |-> fields[i].Name,
                         slot |-> FieldIndex(v.type, fields[i].Name)]]))

\* Struct.AddrForTag, struct.go:368-377
AddrForTag(st, tag, record) ==
    IF ParserPanics(st) THEN Panic
    ELSE LET tagged == Tag(structFields(st), tag)
         IN IF ~tagged.present THEN Ok(NilSlice)
            ELSE addrWithFields(st, tagged.ForRead, record)

\* Struct.Addr, struct.go:360-362
Addr(st, record) == AddrForTag(st, st.structTag, record)

\* Struct.AddrWithCols, struct.go:381-396
AddrWithCols(st, cols, record) ==
    IF ParserPanics(st) THEN Panic
    ELSE LET tagged == Tag(structFields(st), st.structTag)
         IN IF ~tagged.present THEN Ok(NilSlice)
            ELSE LET fields == Cols(tagged, cols)
                 IN IF ~fields.present THEN Ok(NilSlice)
                    ELSE addrWithFields(st, fields.fields, record)

\* Struct.ColumnsForTag, struct.go:423-438
ColumnsForTag(st, tag) ==
    IF ParserPanics(st) THEN Panic
    ELSE LET tagged == Tag(structFields(st), tag)
         IN IF ~tagged.present THEN Ok(NilSlice)
            ELSE Ok(Slice([i \in 1..Len(tagged.ForWrite) |->
                             tagged.ForWrite[i].Alias]))

\* Struct.Columns, struct.go:418-420
Columns(st) == ColumnsForTag(st, st.structTag)

\* Struct.ValuesForTag, struct.go:446-470
ValuesForTag(st, tag, value) ==
    IF ParserPanics(st) THEN Panic
    ELSE LET tagged == Tag(structFields(st), tag)
             v == DerefArg(value)
         IN IF ~tagged.present THEN Ok(NilSlice)
            ELSE IF ~v.valid THEN Panic
            ELSE IF v.type # st.structType THEN Ok(NilSlice)
            ELSE Ok(Slice([i \in 1..Len(tagged.ForWrite) |->
                     Interface(FieldByName(v, tagged.ForWrite[i].Name))]))

\* Struct.Values, struct.go:441-443
Values(st, value) == ValuesForTag(st, st.structTag, value)

(***************************************************************************)
(* Write operations.                                                       *)
(***************************************************************************)
\* The loop body of UpdateForTag, struct.go:173-187, for one field:
\*   skip   the field is empty and its omit-empty option applies
\*   panic  val.Interface() on the zero Value (a non-empty pointer or interface
\*          whose chain ends in nil dereferences to the zero Value)
\*   data   the value assigned: the empty value as it is, a non-empty one
\*          dereferenced
UpdateField(sf, v, tag, flavor) ==
    LET val == FieldByName(v, sf.Name)
        used == IF isEmptyValue(val) THEN val ELSE dereferencedValue(val)
    IN [skip |-> isEmptyValue(val) /\ ShouldOmitEmpty(sf, {"", tag}),
        panic |-> ~used.valid,
        assignment |-> Assign(Quote(sf, flavor), Interface(used))]

\* Struct.UpdateForTag, struct.go:153-191
UpdateForTag(st, table, tag, value) ==
    IF ParserPanics(st) THEN Panic
    ELSE
      LET tagged == Tag(structFields(st), tag)
          v == DerefArg(value)
          step(i) == UpdateField(tagged.ForWrite[i], v, tag, st.Flavor)
          kept == SelectSeq([i \in 1..Len(tagged.ForWrite) |-> i],
                            LAMBDA i : ~step(i).skip)
      IN IF ~tagged.present THEN Ok(UpdateBuilder(st.Flavor, table, << >>))
         ELSE IF ~v.valid THEN Panic
         ELSE IF v.type # st.structType
              THEN Ok(UpdateBuilder(st.Flavor, table, << >>))
         ELSE IF \E j \in 1..Len(kept) : step(kept[j]).panic THEN Panic
         ELSE Ok(UpdateBuilder(st.Flavor, table,
                   [j \in 1..Len(kept) |-> step(kept[j]).assignment]))

\* Struct.Update, struct.go:144-146
Update(st, table, value) == UpdateForTag(st, table, st.structTag, value)

\* a gathering that puts nil for every empty value
InsertValueNilForEmpty(v, sf) ==
    LET val == FieldByName(v, sf.Name)
    IN IF isEmptyValue(val) \/ ~dereferencedValue(val).valid
       THEN NullData ELSE Interface(dereferencedValue(val))

\* The value gathered for one field of one record, struct.go:262-274: the
\* dereferenced value, or nil when dereferencing ends in the zero Value.
InsertValue(v, sf) ==
    LET val == dereferencedValue(FieldByName(v, sf.Name))
    IN IF val.valid THEN Interface(val) ELSE NullData

\* nilCnt of one column, struct.go:258-266: the records whose value is empty,
\* counted only when the omit-empty option applies
NilCnt(vs, sf, tag) ==
    Cardinality({ i \in 1..Len(vs) :
                    isEmptyValue(FieldByName(vs[i], sf.Name))
                    /\ ShouldOmitEmpty(sf, {"", tag}) })

\* a filter that drops a column as soon as one row is empty in it
FilterColsAnyNil(nilCols, rows) ==
    SelectSeq([i \in 1..Len(nilCols) |-> i], LAMBDA i : nilCols[i] = 0)

\* The filter of struct.go:284-295: the indexes of the columns kept, those
\* whose nil count is not the number of rows
FilterCols(nilCols, rows) ==
    SelectSeq([i \in 1..Len(nilCols) |-> i], LAMBDA i : nilCols[i] # rows)

\* a row copied without the filter
FilterRowUnfiltered(row, keep) == row

\* struct.go:292-294: the entries of one row for the columns kept
FilterRow(row, keep) == [j \in 1..Len(keep) |-> row[keep[j]]]

\* Struct.buildColsAndValuesForTag, struct.go:228-302.  Gives the builder after
\* the call, or panics: v.Type() on the zero Value of a nil item.
buildColsAndValuesForTag(st, ib, tag, value) ==
    IF ParserPanics(st) THEN Panic
    ELSE
      LET tagged == Tag(structFields(st), tag)
          all == [i \in 1..Len(value) |-> DerefArg(value[i])]
          vs == SelectSeq(all, LAMBDA v : v.type = st.structType)
          fw == tagged.ForWrite
          cols == [c \in 1..Len(fw) |-> Quote(fw[c], st.Flavor)]
          values == [i \in 1..Len(vs) |->
                       [c \in 1..Len(fw) |-> InsertValue(vs[i], fw[c])]]
          nilCols == [c \in 1..Len(fw) |-> NilCnt(vs, fw[c], tag)]
          keep == FilterCols(nilCols, Len(values))
          filteredCols == [j \in 1..Len(keep) |-> cols[keep[j]]]
          filteredValues == [i \in 1..Len(values) |-> FilterRow(values[i], keep)]
      IN IF ~tagged.present THEN Ok(ib)
         ELSE IF \E i \in 1..Len(all) : ~all[i].valid THEN Panic
         ELSE IF Len(vs) = 0 THEN Ok(ib)
         ELSE Ok(IbValues(IbCols(ib, filteredCols), filteredValues))

\* Struct.InsertIntoForTag, struct.go:311-317
InsertIntoForTag(st, table, tag, value) ==
    buildColsAndValuesForTag(st, NewInsertBuilder(st.Flavor, "INSERT", table),
                             tag, value)

\* Struct.InsertIgnoreIntoForTag, struct.go:326-332
InsertIgnoreIntoForTag(st, table, tag, value) ==
    buildColsAndValuesForTag(st, NewInsertBuilder(st.Flavor, "INSERT IGNORE", table),
                             tag, value)

\* Struct.ReplaceIntoForTag, struct.go:341-347
ReplaceIntoForTag(st, table, tag, value) ==
    buildColsAndValuesForTag(st, NewInsertBuilder(st.Flavor, "REPLACE", table),
                             tag, value)

\* Struct.InsertInto, struct.go:200-202
InsertInto(st, table, value) == InsertIntoForTag(st, table, st.structTag, value)

\* Struct.InsertIgnoreInto, struct.go:211-213
InsertIgnoreInto(st, table, value) ==
    InsertIgnoreIntoForTag(st, table, st.structTag, value)

\* Struct.ReplaceInto, struct.go:222-224
ReplaceInto(st, table, value) == ReplaceIntoForTag(st, table, st.structTag, value)

(***************************************************************************)
(* The sequential specifications: the caller holds a Struct s, built by    *)
(* NewStruct and at most one configuration call, and the record arguments  *)
(* args; every action is one call of an operation.                         *)
(***************************************************************************)
Configured(S) ==
    S \cup { For(x, f).val : x \in S, f \in Flavors }
      \cup { WithFieldMapper(x, m).val : x \in S, m \in Mappers }
      \cup { WithTag(x, g).val : x \in S, g \in Tags }

Constructed == Configured({ NewStruct(x).val : x \in Samples })

ZeroRecord(t) ==
    [kind |-> "ptr", type |-> t,
     fields |-> [i \in 1..Len(TypeDecl(t)) |->
                   CHOOSE v \in FieldValues(TypeDecl(t)[i].depth, TypeDecl(t)[i].len) :
                       isEmptyValue(v)]]

\* arguments that are not records of type t: nil, a nil pointer, a value of
\* another type, a record of another declared type
Mismatched(t) ==
    {NilArg, NilPtrArg(IF t = "" THEN "User" ELSE t), IntArg}
    \cup { ZeroRecord(u) : u \in StructTypes \ {t} }

ArgsFor(st) ==
    (IF st.structType = "" THEN {} ELSE RecordsOf(st.structType))
    \cup Mismatched(st.structType)

\* the insert variants treat a record behind a pointer as the record itself:
\* records of the bound type are passed by value
InsertArgsFor(st) ==
    { a \in ArgsFor(st) : /\ a.type = st.structType => a.kind # "ptr"
                          /\ a # IntArg }

RECURSIVE SeqsUpTo(_, _)
SeqsUpTo(S, n) ==
    IF n = 0 THEN { << >> }
    ELSE LET shorter == SeqsUpTo(S, n - 1)
         IN shorter \cup { Append(q, x) : q \in { r \in shorter : Len(r) = n - 1 },
                                          x \in S }

Tables == {"t"}

\* column names a caller of AddrWithCols passes: the type's own and an unknown one
ColNamesFor(st) ==
    { ParseField(TypeDecl(st.structType)[i], m).Alias :
          i \in 1..Len(TypeDecl(st.structType)), m \in Mappers } \cup {"bogus"}

NoCall == [op |-> "none", tag |-> "", cols |-> << >>, out |-> Ok(NoRet)]
Call(op, tag, cols, out) == [op |-> op, tag |-> tag, cols |-> cols, out |-> out]

NoCfg == [op |-> "none", recv |-> 1, ret |-> 1, before |-> << emptyStruct >>]

InitCfg == heap = << emptyStruct >> /\ cfg = NoCfg

InitConc ==
    /\ once = "idle" /\ sfsBuilt = 0 /\ builds = 0
    /\ pc = [p \in 1..NumProcs |-> "idle"]
    /\ seen = [p \in 1..NumProcs |-> -1]
    /\ calls = [p \in 1..NumProcs |-> 0]

InitOther == InitCfg /\ InitConc

\* the single-record operations are called with one record
Init ==
    /\ s \in Constructed
    /\ args \in { <<a>> : a \in ArgsFor(s) }
    /\ last = NoCall
    /\ InitOther

\* the insert variants are called with any number of records
InitInsert ==
    /\ s \in Constructed
    /\ args \in SeqsUpTo(InsertArgsFor(s), MaxRecords)
    /\ last = NoCall
    /\ InitOther

Frame == UNCHANGED <<s, args, heap, cfg>> /\ UNCHANGED concVars

DoSelectFrom ==
    \E tb \in Tables :
        /\ last' = Call("SelectFrom", s.structTag, << >>, SelectFrom(s, tb))
        /\ Frame
DoSelectFromForTag ==
    \E tb \in Tables, g \in Tags :
        /\ last' = Call("SelectFromForTag", g, << >>, SelectFromForTag(s, tb, g))
        /\ Frame
DoUpdate ==
    \E tb \in Tables :
        /\ last' = Call("Update", s.structTag, << >>, Update(s, tb, args[1]))
        /\ Frame
DoUpdateForTag ==
    \E tb \in Tables, g \in Tags :
        /\ last' = Call("UpdateForTag", g, << >>, UpdateForTag(s, tb, g, args[1]))
        /\ Frame
DoDeleteFrom ==
    \E tb \in Tables :
        /\ last' = Call("DeleteFrom", "", << >>, DeleteFrom(s, tb))
        /\ Frame
DoAddr ==
    /\ last' = Call("Addr", s.structTag, << >>, Addr(s, args[1]))
    /\ Frame
DoAddrForTag ==
    \E g \in Tags :
        /\ last' = Call("AddrForTag", g, << >>, AddrForTag(s, g, args[1]))
        /\ Frame
DoAddrWithCols ==
    \E cols \in SeqsUpTo(ColNamesFor(s), MaxCols) :
        /\ last' = Call("AddrWithCols", s.structTag, cols, AddrWithCols(s, cols, args[1]))
        /\ Frame
DoColumns ==
    /\ last' = Call("Columns", s.structTag, << >>, Columns(s))
    /\ Frame
DoColumnsForTag ==
    \E g \in Tags :
        /\ last' = Call("ColumnsForTag", g, << >>, ColumnsForTag(s, g))
        /\ Frame
DoValues ==
    /\ last' = Call("Values", s.structTag, << >>, Values(s, args[1]))
    /\ Frame
DoValuesForTag ==
    \E g \in Tags :
        /\ last' = Call("ValuesForTag", g, << >>, ValuesForTag(s, g, args[1]))
        /\ Frame

DoInsertInto ==
    \E tb \in Tables :
        /\ last' = Call("InsertInto", s.structTag, << >>, InsertInto(s, tb, args))
        /\ Frame
DoInsertIgnoreInto ==
    \E tb \in Tables :
        /\ last' = Call("InsertIgnoreInto", s.structTag, << >>, InsertIgnoreInto(s, tb, args))
        /\ Frame
DoReplaceInto ==
    \E tb \in Tables :
        /\ last' = Call("ReplaceInto", s.structTag, << >>, ReplaceInto(s, tb, args))
        /\ Frame
DoInsertIntoForTag ==
    \E tb \in Tables, g \in Tags :
        /\ last' = Call("InsertIntoForTag", g, << >>, InsertIntoForTag(s, tb, g, args))
        /\ Frame
DoInsertIgnoreIntoForTag ==
    \E tb \in Tables, g \in Tags :
        /\ last' = Call("InsertIgnoreIntoForTag", g, << >>,
                        InsertIgnoreIntoForTag(s, tb, g, args))
        /\ Frame
DoReplaceIntoForTag ==
    \E tb \in Tables, g \in Tags :
        /\ last' = Call("ReplaceIntoForTag", g, << >>, ReplaceIntoForTag(s, tb, g, args))
        /\ Frame

Next ==
    \/ DoSelectFrom \/ DoSelectFromForTag
    \/ DoUpdate \/ DoUpdateForTag
    \/ DoDeleteFrom
    \/ DoAddr \/ DoAddrForTag \/ DoAddrWithCols
    \/ DoColumns \/ DoColumnsForTag
    \/ DoValues \/ DoValuesForTag

Spec == Init /\ [][Next]_vars

NextInsert ==
    \/ DoInsertInto \/ DoInsertIgnoreInto \/ DoReplaceInto
    \/ DoInsertIntoForTag \/ DoInsertIgnoreIntoForTag \/ DoReplaceIntoForTag

SpecInsert == InitInsert /\ [][NextInsert]_vars

(***************************************************************************)
(* Properties of the insert variants (SpecInsert).                         *)
(***************************************************************************)
InsertOps ==
    {"InsertInto", "InsertIgnoreInto", "ReplaceInto",
     "InsertIntoForTag", "InsertIgnoreIntoForTag", "ReplaceIntoForTag"}

IsRecord(a) == a.kind \in {"value", "ptr"}

\* the arguments that are records of the bound type, in the order passed
Surviving == SelectSeq(args, LAMBDA a : IsRecord(a) /\ a.type = s.structType)

\* every argument is a record of some type (none is nil or a nil pointer)
AllRecords == \A i \in 1..Len(args) : IsRecord(args[i])

\* the write view of the tag of the last call
WriteView == Tag(structFields(s), last.tag).ForWrite
ViewPresent == s.structType # "" /\ Tag(structFields(s), last.tag).present

FieldOf(a, sf) == a.fields[FieldIndex(a.type, sf.Name)]
OmitApplies(sf) == ShouldOmitEmpty(sf, {"", last.tag})
AllEmpty(sf) == \A i \in 1..Len(Surviving) : isEmptyValue(FieldOf(Surviving[i], sf))
Emitted(sf) ==
    \E j \in 1..Len(last.out.ret.cols) : last.out.ret.cols[j] = Quote(sf, s.Flavor)

\* an insert variant was called with records only, one at least of the bound type
InsertCase ==
    /\ last.op \in InsertOps
    /\ s.structType # ""
    /\ AllRecords
    /\ Surviving # << >>

\* C1: an insert variant called with at least one record of the bound type
\* leaves a write-view column out of the column list exactly when the field's
\* omit-empty option applies to the tag and every surviving record is empty in
\* that field; the decision is taken column by column.
Thm_C1_ColumnOmittedIffAllEmpty ==
    InsertCase =>
        /\ last.out.status = "ok"
        /\ \A c \in 1..Len(WriteView) :
              ~Emitted(WriteView[c]) <=> (OmitApplies(WriteView[c]) /\ AllEmpty(WriteView[c]))

\* C1: one column dropped (all rows empty) next to a column whose option
\* applies too but is kept because one of two rows is not empty.
Wit_C1_DroppedAndKept ==
    /\ InsertCase /\ last.out.status = "ok" /\ Len(Surviving) = 2
    /\ \E c, d \in 1..Len(WriteView) :
          /\ OmitApplies(WriteView[c]) /\ ~Emitted(WriteView[c])
          /\ OmitApplies(WriteView[d]) /\ Emitted(WriteView[d])
          /\ ~AllEmpty(WriteView[d])

\* the field of the write view emitted as the j-th column
ColumnField(j) ==
    CHOOSE sf \in { WriteView[c] : c \in 1..Len(WriteView) } :
        Quote(sf, s.Flavor) = last.out.ret.cols[j]

\* a record's value for a field as the builder is to receive it: dereferenced,
\* null when the chain of pointers ends in nil
ValueFor(a, sf) ==
    LET val == FieldOf(a, sf)
    IN IF val.isNil THEN NullData
       ELSE Interface([valid |-> TRUE, ptrs |-> 0, isNil |-> FALSE, elems |-> val.elems])

\* C2 as stated: in a column kept although its omit-empty option applies, every
\* surviving record that is empty in it gets a null placeholder.
Cex_C2_EmptyGetsNull ==
    (InsertCase /\ last.out.status = "ok") =>
        \A j \in 1..Len(last.out.ret.cols) : \A i \in 1..Len(Surviving) :
            (OmitApplies(ColumnField(j)) /\ isEmptyValue(FieldOf(Surviving[i], ColumnField(j))))
                => last.out.ret.values[i][j] = NullData

\* C2 amended: in a column kept although its omit-empty option applies, a
\* surviving record that is empty in it gets its own empty value (the zero
\* value itself), and a null placeholder only when the field is a nil pointer
\* or nil interface.
Thm_C2_EmptyKeepsOwnValue ==
    InsertCase =>
        /\ last.out.status = "ok"
        /\ \A j \in 1..Len(last.out.ret.cols) : \A i \in 1..Len(Surviving) :
            LET sf == ColumnField(j)
                val == FieldOf(Surviving[i], sf)
            IN (OmitApplies(sf) /\ isEmptyValue(val)) =>
                  /\ val.isNil => last.out.ret.values[i][j] = NullData
                  /\ ~val.isNil => last.out.ret.values[i][j] = Interface(val)

\* C2: the example of the design document: of two records one has the empty
\* scalar and the other a value in a kept column whose option applies.
Wit_C2_EmptyScalarInKeptColumn ==
    /\ InsertCase /\ last.out.status = "ok" /\ Len(Surviving) = 2
    /\ \E j \in 1..Len(last.out.ret.cols) :
          /\ OmitApplies(ColumnField(j))
          /\ isEmptyValue(FieldOf(Surviving[1], ColumnField(j)))
          /\ ~FieldOf(Surviving[1], ColumnField(j)).isNil
          /\ ~isEmptyValue(FieldOf(Surviving[2], ColumnField(j)))

\* C4 as stated: records of another type are dropped without a failure, and
\* with no record left the builder has the write view's columns and no row.
Cex_C4_ColumnOnlyScaffold ==
    (last.op \in InsertOps /\ ViewPresent /\ Surviving = << >>) =>
        /\ last.out.status = "ok"
        /\ last.out.ret.values = << >>
        /\ last.out.ret.cols = [c \in 1..Len(WriteView) |-> Quote(WriteView[c], s.Flavor)]

\* C10: with a record of the bound type and a present view the builder gets one
\* row per surviving record, in the order passed, each as long as the column
\* list, its j-th entry the record's value for the j-th column emitted;
\* also when every column is dropped.
Thm_C10_RowsMatchColumns ==
    (InsertCase /\ ViewPresent) =>
        /\ last.out.status = "ok"
        /\ Len(last.out.ret.values) = Len(Surviving)
        /\ \A j \in 1..Len(last.out.ret.cols) :
              \E c \in 1..Len(WriteView) :
                  Quote(WriteView[c], s.Flavor) = last.out.ret.cols[j]
        /\ \A i \in 1..Len(Surviving) :
              /\ Len(last.out.ret.values[i]) = Len(last.out.ret.cols)
              /\ \A j \in 1..Len(last.out.ret.cols) :
                    last.out.ret.values[i][j] = ValueFor(Surviving[i], ColumnField(j))

\* C10: every column of a two-column view is dropped and two rows are added.
Wit_C10_EveryColumnDropped ==
    /\ InsertCase /\ ViewPresent /\ last.out.status = "ok"
    /\ Len(WriteView) = 2
    /\ last.out.ret.cols = << >>
    /\ Len(last.out.ret.values) = 2

(***************************************************************************)
(* Properties of the single-record operations (Spec).                      *)
(***************************************************************************)
\* the record of the call is a record of the bound type
OfBoundType == IsRecord(args[1]) /\ args[1].type = s.structType

\* the assignments UpdateForTag is to make: the write-view fields, in view
\* order, that are not (empty with an applicable omit-empty option); an empty
\* value is assigned as it is, another one dereferenced
AssignedFields ==
    SelectSeq(WriteView,
              LAMBDA sf : ~(isEmptyValue(FieldOf(args[1], sf)) /\ OmitApplies(sf)))

ExpectedAssignment(sf) ==
    LET val == FieldOf(args[1], sf)
    IN Assign(Quote(sf, s.Flavor),
              IF isEmptyValue(val) THEN Interface(val)
              ELSE Interface([valid |-> ~val.isNil, ptrs |-> 0, isNil |-> FALSE,
                              elems |-> val.elems]))

\* C3 as stated: for a record of the bound type and a present view UpdateForTag
\* assigns exactly the write-view fields that are not (empty with an omit-empty
\* option that applies to the tag), in view order, non-empty values dereferenced.
Cex_C3_UpdateAssignments ==
    (last.op = "UpdateForTag" /\ ViewPresent /\ OfBoundType) =>
        /\ last.out.status = "ok"
        /\ last.out.ret.assignments =
              [j \in 1..Len(AssignedFields) |-> ExpectedAssignment(AssignedFields[j])]

ReadView == Tag(structFields(s), last.tag).ForRead

\* writing x through a reference returned by Addr
WriteThrough(rec, ref, x) == [rec EXCEPT !.fields[ref.slot] = x]

AddrResultFor(record) ==
    /\ last.out.status = "ok"
    /\ ~last.out.ret.isNil
    /\ Len(last.out.ret.items) = Len(ReadView)
    /\ LET sel == SelectFromForTag(s, "t", last.tag).ret.cols
       IN /\ Len(last.out.ret.items) = Len(sel)
          /\ \A i \in 1..Len(sel) :
                \E sf \in { ReadView[c] : c \in 1..Len(ReadView) } :
                    /\ sf.Name = last.out.ret.items[i].Name
                    /\ NameForSelect(sf, s.Flavor) = sel[i].col
    /\ \A i \in 1..Len(ReadView) :
          /\ last.out.ret.items[i].Name = ReadView[i].Name
          /\ \A x \in FieldValues(2, 1) :
                LET after == WriteThrough(record, last.out.ret.items[i], x)
                IN \A sf \in { ReadView[c] : c \in 1..Len(ReadView) } \cup
                             { ParseField(TypeDecl(s.structType)[k], "default") :
                                   k \in 1..Len(TypeDecl(s.structType)) } :
                       FieldOf(after, sf) =
                           IF sf.Name = ReadView[i].Name THEN x ELSE FieldOf(record, sf)

RecordOps ==
    {"Update", "UpdateForTag", "Addr", "AddrForTag", "AddrWithCols",
     "Values", "ValuesForTag"}

EmptyResult ==
    /\ last.out.status = "ok"
    /\ last.op \in {"Update", "UpdateForTag"} => last.out.ret.assignments = << >>
    /\ last.op \in RecordOps \ {"Update", "UpdateForTag"} => last.out.ret.isNil

\* C6 as stated: a per-record operation given a value of another type, nil or
\* a nil pointer returns the empty result and never fails.
Cex_C6_MismatchIsEmpty ==
    (last.op \in RecordOps /\ s.structType # "" /\ ~OfBoundType) => EmptyResult

\* C7 as stated: on the dummy Struct of a non-struct value every operation
\* returns and maps nothing.
Cex_C7_DummyIsNoOp ==
    (last.op # "none" /\ s.structType = "") =>
        /\ last.out.status = "ok"
        /\ last.op \in {"Columns", "ColumnsForTag"} \cup (RecordOps \ {"Update", "UpdateForTag"})
              => last.out.ret.items = << >>
        /\ last.op \in {"Update", "UpdateForTag"} => last.out.ret.assignments = << >>

(***************************************************************************)
(* The configuration methods on Struct objects (SpecConfig).  heap[1] is   *)
(* the package variable emptyStruct; a method that returns &c of a local   *)
(* copy c allocates a new object.                                          *)
(***************************************************************************)
\* the heap and the address returned for the result of a method
Returned(h, res) ==
    IF res.ref = "empty" THEN [heap |-> h, ret |-> 1]
    ELSE [heap |-> Append(h, res.val), ret |-> Len(h) + 1]

Configure(op, recv, res) ==
    /\ res.ref = "new" => Len(heap) <= MaxStructs
    /\ heap' = Returned(heap, res).heap
    /\ cfg' = [op |-> op, recv |-> recv, ret |-> Returned(heap, res).ret,
               before |-> heap]
    /\ UNCHANGED seqVars /\ UNCHANGED concVars

CfgNewStruct ==
    \E x \in Samples :
        Configure("NewStruct", 1, NewStruct(x))
CfgFor ==
    \E r \in 1..Len(heap), f \in Flavors :
        Configure("For", r, For(heap[r], f))
CfgWithFieldMapper ==
    \E r \in 1..Len(heap), m \in Mappers :
        Configure("WithFieldMapper", r, WithFieldMapper(heap[r], m))
CfgWithTag ==
    \E r \in 1..Len(heap), g \in Tags :
        Configure("WithTag", r, WithTag(heap[r], g))

NextConfig == CfgNewStruct \/ CfgFor \/ CfgWithFieldMapper \/ CfgWithTag

InitConfig ==
    /\ s = emptyStruct /\ args = << >> /\ last = NoCall
    /\ InitOther

SpecConfig == InitConfig /\ [][NextConfig]_vars

\* C8 as stated: For, WithFieldMapper and WithTag return a new Struct, leave
\* every existing Struct (the receiver with it) as it was, and the result is the
\* receiver but for the setting configured.
Cex_C8_ConfigureReturnsNewCopy ==
    cfg.op \in {"For", "WithFieldMapper", "WithTag"} =>
        /\ cfg.ret \notin 1..Len(cfg.before)
        /\ \A a \in 1..Len(cfg.before) : heap[a] = cfg.before[a]
        /\ cfg.ret \in 1..Len(heap)
        /\ LET old == cfg.before[cfg.recv]
               new == heap[cfg.ret]
           IN /\ cfg.op # "For" => new.Flavor = old.Flavor
              /\ cfg.op # "WithTag" => new.structTag = old.structTag
              /\ cfg.op # "WithFieldMapper" => new.structFieldsParser = old.structFieldsParser
              /\ new.structType = old.structType

(***************************************************************************)
(* Goroutines sharing one Struct (SpecConc).  Every operation starts with  *)
(* sfs := s.structFieldsParser().  The parser itself is modelled from      *)
(* sections 4.2 and 5 of the design document: the first caller parses the  *)
(* fields one by one, callers arriving meanwhile block until it is done,   *)
(* later callers get the stored descriptors.                               *)
(***************************************************************************)
\* the type the shared Struct is bound to, and the size of its descriptor set
SharedType == "Patch"
FullSet == Len(ParseFields(SharedType, "default"))

\* a parser that lets a caller through while another one is still parsing
EnterWithoutWaiting(o) ==
    IF o = "idle" THEN "parsing" ELSE "return"

\* what a caller of the parser does on entry, by the state of the
\* once-only guard
Enter(o) ==
    IF o = "idle" THEN "parsing"
    ELSE IF o = "running" THEN "wait"
    ELSE "return"

ConcFrame == UNCHANGED seqVars /\ UNCHANGED cfgVars

\* a goroutine starts an operation of the shared Struct
Begin(p) ==
    /\ pc[p] = "idle" /\ calls[p] < MaxCalls
    /\ pc' = [pc EXCEPT ![p] = "enter"]
    /\ calls' = [calls EXCEPT ![p] = @ + 1]
    /\ UNCHANGED <<once, sfsBuilt, seen, builds>> /\ ConcFrame

\* sfs := s.structFieldsParser()
CallParser(p) ==
    /\ pc[p] = "enter"
    /\ pc' = [pc EXCEPT ![p] = Enter(once)]
    /\ once' = IF once = "idle" THEN "running" ELSE once
    /\ builds' = IF once = "idle" THEN builds + 1 ELSE builds
    /\ UNCHANGED <<sfsBuilt, seen, calls>> /\ ConcFrame

\* the parsing caller adds the descriptor of the next field
ParseStep(p) ==
    /\ pc[p] = "parsing" /\ sfsBuilt < FullSet
    /\ sfsBuilt' = sfsBuilt + 1
    /\ UNCHANGED <<once, pc, seen, builds, calls>> /\ ConcFrame

\* the parsing caller is done
ParseDone(p) ==
    /\ pc[p] = "parsing" /\ sfsBuilt = FullSet
    /\ once' = "done"
    /\ pc' = [pc EXCEPT ![p] = "return"]
    /\ UNCHANGED <<sfsBuilt, seen, builds, calls>> /\ ConcFrame

\* a blocked caller goes on once the set is complete
Wake(p) ==
    /\ pc[p] = "wait" /\ once = "done"
    /\ pc' = [pc EXCEPT ![p] = "return"]
    /\ UNCHANGED <<once, sfsBuilt, seen, builds, calls>> /\ ConcFrame

\* the parser returns: the caller has the descriptors built so far
ParserReturns(p) ==
    /\ pc[p] = "return"
    /\ seen' = [seen EXCEPT ![p] = sfsBuilt]
    /\ pc' = [pc EXCEPT ![p] = "idle"]
    /\ UNCHANGED <<once, sfsBuilt, builds, calls>> /\ ConcFrame

NextConc ==
    \E p \in 1..NumProcs :
        \/ Begin(p) \/ CallParser(p) \/ ParseStep(p) \/ ParseDone(p)
        \/ Wake(p) \/ ParserReturns(p)

InitConcOnly ==
    /\ s = NewStruct(SharedType).val /\ args = << >> /\ last = NoCall
    /\ InitOther

SpecConc == InitConcOnly /\ [][NextConc]_vars

\* C9: with goroutines calling the operations of one Struct the descriptor set
\* is computed once, and every caller gets the complete set, never a part of it.
Thm_C9_ParsedOnceSeenComplete ==
    /\ builds <= 1
    /\ \A p \in 1..NumProcs : seen[p] # -1 => seen[p] = FullSet

\* C9: every goroutine called the parser at the same time (none had started a
\* second operation) and every one holds the set.
Wit_C9_ConcurrentCallersGotSet ==
    /\ builds = 1
    /\ \A p \in 1..NumProcs : seen[p] = FullSet /\ calls[p] = 1

====
